---- MODULE Spec2Model ----
(***************************************************************************)
(* A model of src/XlsxCell.h of readxl: the cell reference parser          *)
(* (parseRef), the rich-text resolver (parseString) and the XlsxCell       *)
(* class (constructor, type() and the four value accessors).               *)
(*                                                                         *)
(* C strings are sequences of one-character strings.  An optional XML      *)
(* attribute or child is a record with a `present` flag (a NULL pointer    *)
(* in the source is present = FALSE).                                      *)
(***************************************************************************)
EXTENDS Integers, Sequences, FiniteSets, TLC

\* ------------------------------------------------------------------ bounds
MaxRefLen == 4      \* longest cell reference string that is enumerated
MaxKids   == 3      \* most children of an <si>/<is> node
MaxTable  == 3      \* longest shared-string table

\* ------------------------------------------------------- characters (ASCII)
Letters == <<"A","B","C","D","E","F","G","H","I","J","K","L","M",
             "N","O","P","Q","R","S","T","U","V","W","X","Y","Z">>
Digits  == <<"0","1","2","3","4","5","6","7","8","9">>

IndexOf(seq, c) == CHOOSE i \in 1..Len(seq) : seq[i] = c
IsIn(seq, c)    == \E i \in 1..Len(seq) : seq[i] = c

\* the character code of c, as the comparisons and subtractions of the
\* source see it
Ord(c) == IF IsIn(Letters, c) THEN 64 + IndexOf(Letters, c)
          ELSE IF IsIn(Digits, c) THEN 47 + IndexOf(Digits, c)
          ELSE CASE c = " " -> 32
                 [] c = "#" -> 35
                 [] c = "+" -> 43
                 [] c = "-" -> 45
                 [] c = "@" -> 64
                 [] OTHER   -> 96 + IndexOf(<<"a","b","c","d","e","f","g","h",
                                  "i","j","k","l","m","n","o","p","q","r","s",
                                  "t","u","v","w","x","y","z">>, c)

\* all sequences over S of length 0..n
SeqUpTo(S, n) == UNION {[1..k -> S] : k \in 0..n}

Absent     == [present |-> FALSE, value |-> <<>>]
Present(x) == [present |-> TRUE,  value |-> x]

\* ---------------------------------------------------------------- parseRef
\* row = row * 10 + (*cur - '0')
rowStep(row, c) == row * 10 + (c - Ord("0"))

colStep_zeroBased(col, c) == 26 * col + (c - Ord("A"))
\* col = 26 * col + (*cur - 'A' + 1)
colStep(col, c) == 26 * col + (c - Ord("A") + 1)

RECURSIVE parseRefLoop(_, _, _, _)
parseRefLoop(ref, cur, row, col) ==
    IF cur > Len(ref)
    THEN [stop |-> FALSE, row |-> row - 1, col |-> col - 1]   \* zero indexed
    ELSE LET c == Ord(ref[cur]) IN
         IF c >= Ord("0") /\ c <= Ord("9")
         THEN parseRefLoop(ref, cur + 1, rowStep(row, c), col)
         ELSE IF c >= Ord("A") /\ c <= Ord("Z")
         THEN parseRefLoop(ref, cur + 1, row, colStep(col, c))
         ELSE [stop |-> TRUE, row |-> 0, col |-> 0]           \* Rcpp::stop

parseRef(ref) == parseRefLoop(ref, 1, 0, 0)

\* ------------------------------------------------------------- parseString
\* an XML element: its name, its text content and its child elements
Elem(name, value, kids) == [name |-> name, value |-> value, kids |-> kids]
T(text) == Elem("t", text, <<>>)
R(kids) == Elem("r", <<>>, kids)

\* rapidxml xml_node::first_node(name): the index of the first child with
\* that name, 0 for NULL
first_node(node, name) ==
    LET hits == {i \in 1..Len(node.kids) : node.kids[i].name = name}
    IN  IF hits = {} THEN 0 ELSE CHOOSE i \in hits : \A j \in hits : i <= j

\* rapidxml xml_node::next_sibling(name) of child i of node, 0 for NULL
next_sibling(node, i, name) ==
    LET hits == {k \in (i + 1)..Len(node.kids) : node.kids[k].name = name}
    IN  IF hits = {} THEN 0 ELSE CHOOSE k \in hits : \A j \in hits : k <= j

runStep_foundOnlyIfText(run, acc) ==
    LET t == first_node(run, "t") IN
    IF t # 0
    THEN [found |-> acc.found \/ run.kids[t].value # <<>>,
          out |-> acc.out \o run.kids[t].value]
    ELSE acc
\* the body of the loop over the <r> children
runStep(run, acc) ==
    LET t == first_node(run, "t") IN
    IF t # 0
    THEN [found |-> TRUE, out |-> acc.out \o run.kids[t].value]
    ELSE acc

RECURSIVE runLoop(_, _, _)
\* for (r = string->first_node("r"); r != NULL; r = r->next_sibling("r"))
runLoop(string, r, acc) ==
    IF r = 0 THEN acc
    ELSE runLoop(string, next_sibling(string, r, "r"),
                 runStep(string.kids[r], acc))

parseString(string) ==
    LET t == first_node(string, "t")
        acc0 == IF t # 0
                THEN [found |-> TRUE,  out |-> string.kids[t].value]
                ELSE [found |-> FALSE, out |-> <<>>]       \* out->clear()
    IN  runLoop(string, first_node(string, "r"), acc0)

\* ------------------------------------------------------- libc and STL
NUL == "NUL"
CharAt(s, i) == IF i <= Len(s) THEN s[i] ELSE NUL

RECURSIVE strncmpFrom(_, _, _, _)
strncmpFrom(a, b, i, n) ==
    IF i > n THEN 0
    ELSE IF CharAt(a, i) # CharAt(b, i) THEN 1
    ELSE IF CharAt(a, i) = NUL THEN 0
    ELSE strncmpFrom(a, b, i + 1, n)

\* strncmp(a, b, n): 0 when the first n characters (up to and including a
\* terminator) agree, nonzero otherwise
strncmp(a, b, n) == strncmpFrom(a, b, 1, n)

RECURSIVE skipSpace(_, _)
skipSpace(s, i) == IF i <= Len(s) /\ s[i] = " " THEN skipSpace(s, i + 1) ELSE i

RECURSIVE digitsValue(_, _, _)
digitsValue(s, i, acc) ==
    IF i > Len(s) \/ ~IsIn(Digits, s[i]) THEN acc
    ELSE digitsValue(s, i + 1, acc * 10 + (Ord(s[i]) - Ord("0")))

\* atoi: optional blanks, optional sign, then the longest run of digits;
\* 0 when there is none
atoi(s) ==
    LET i == skipSpace(s, 1)
        signed == i <= Len(s) /\ s[i] \in {"-", "+"}
        n == digitsValue(s, IF signed THEN i + 1 ELSE i, 0)
    IN  IF signed /\ s[i] = "-" THEN -n ELSE n

\* atof on the value texts of this model, none of which has a fraction, an
\* exponent or an inf/nan spelling: the leading integer, 0 when none
atof(s) == atoi(s)

at_unchecked(tbl, id) ==
    IF id >= 0 /\ id < Len(tbl)
    THEN [thrown |-> FALSE, value |-> tbl[id + 1]]
    ELSE [thrown |-> FALSE, value |-> <<>>]
\* std::vector::at: throws std::out_of_range outside [0, size)
at(tbl, id) ==
    IF id >= 0 /\ id < Len(tbl)
    THEN [thrown |-> FALSE, value |-> tbl[id + 1]]
    ELSE [thrown |-> TRUE,  value |-> <<>>]

\* --------------------------------------------------------------- XlsxCell
\* What a call returned.  kind: "text", "na" (NA_STRING / NA_REAL), "num",
\* "tag" (a CellType) or "stop" (an exception left the call).  A double is
\* held as count * unit.  path records which branch produced the value.
Ret(kind, path) ==
    [kind |-> kind, tag |-> "none", text |-> <<>>, count |-> 0, unit |-> 1,
     warned |-> FALSE, path |-> path, offset |-> 0]
NotCalled       == Ret("none", "none")
Thrown(path)    == Ret("stop", path)
Text(x, path)   == [Ret("text", path) EXCEPT !.text = x]
Missing(path)   == Ret("na", path)
Warned(r)       == [r EXCEPT !.warned = TRUE]
Num(n, u, path) == [Ret("num", path) EXCEPT !.count = n, !.unit = u]
Tag(tg, path)   == [Ret("tag", path) EXCEPT !.tag = tg]

\* XlsxCell::asStdString
asStdString(c, stringTable) ==
    IF ~c.v.present THEN Text(<<"[", "N", "U", "L", "L", "]">>, "novalue")
    ELSE IF ~c.t.present \/ strncmp(c.t.value, <<"s">>, 3) # 0
    THEN Text(c.v.value, "raw")
    ELSE LET e == at(stringTable, atoi(c.v.value)) IN
         IF e.thrown THEN Thrown("table") ELSE Text(e.value, "table")

\* XlsxCell::asDouble
asDouble(c, na) ==
    IF ~c.v.present \/ na = c.v.value THEN Missing("na")
    ELSE IF ~c.v.present THEN Num(0, 1, "zero")
    ELSE Num(atof(c.v.value), 1, "parsed")

dateSeconds_plusOffset(value, offset) == Num(value + offset, 86400, "parsed")
\* (value - offset) * 86400
dateSeconds(value, offset) == Num(value - offset, 86400, "parsed")

\* XlsxCell::asDate
asDate(c, na, offset) ==
    IF ~c.v.present \/ na = c.v.value THEN Missing("na")
    ELSE IF ~c.v.present THEN Num(0, 1, "zero")
    ELSE dateSeconds(atof(c.v.value), offset)

stringFromTable_noSentinel(val, na, stringTable) ==
    LET id == atoi(val) IN
    IF id < 0 \/ id >= Len(stringTable) THEN Warned(Missing("table"))
    ELSE Text(at(stringTable, id).value, "table")
\* XlsxCell::stringFromTable
stringFromTable(val, na, stringTable) ==
    LET id == atoi(val) IN
    IF id < 0 \/ id >= Len(stringTable) THEN Warned(Missing("table"))
    ELSE LET e == at(stringTable, id) IN
         IF e.thrown THEN Thrown("table")
         ELSE IF e.value = na THEN Missing("table") ELSE Text(e.value, "table")

\* XlsxCell::asCharSxp
asCharSxp(c, na, stringTable) ==
    IF c.is.present
    THEN LET r == parseString(c.is.value) IN
         IF ~r.found \/ na = r.out THEN Missing("inline")
         ELSE Text(r.out, "inline")
    ELSE IF ~c.v.present THEN Missing("novalue")
    ELSE IF c.t.present /\ strncmp(c.t.value, <<"s">>, Len(c.t.value)) = 0
    THEN stringFromTable(c.v.value, na, stringTable)
    ELSE IF na = c.v.value THEN Missing("raw") ELSE Text(c.v.value, "raw")

styleOf_absentIsZero(c) == IF ~c.s.present THEN 0 ELSE atoi(c.s.value)
\* int style = (s == NULL) ? -1 : atoi(s->value())
styleOf(c) == IF ~c.s.present THEN -1 ELSE atoi(c.s.value)

\* XlsxCell::type
type(c, na, stringTable, dateStyles) ==
    IF ~c.t.present \/ strncmp(c.t.value, <<"n">>, 5) = 0
    THEN IF styleOf(c) \in dateStyles
         THEN Tag("CELL_DATE", "n") ELSE Tag("CELL_NUMERIC", "n")
    ELSE IF strncmp(c.t.value, <<"b">>, 5) = 0 THEN Tag("CELL_NUMERIC", "b")
    ELSE IF strncmp(c.t.value, <<"d">>, 5) = 0 THEN Tag("CELL_TEXT", "d")
    ELSE IF strncmp(c.t.value, <<"e">>, 5) = 0 THEN Tag("CELL_BLANK", "e")
    ELSE IF strncmp(c.t.value, <<"s">>, 5) = 0
    THEN IF ~c.v.present THEN Tag("CELL_BLANK", "s")
         ELSE LET e == at(stringTable, atoi(c.v.value)) IN
              IF e.thrown THEN Thrown("s")
              ELSE IF e.value = na THEN Tag("CELL_BLANK", "s")
              ELSE Tag("CELL_TEXT", "s")
    ELSE IF strncmp(c.t.value, <<"s", "t", "r">>, 5) = 0
    THEN IF ~c.v.present THEN Tag("CELL_BLANK", "str")
         ELSE IF na = c.v.value THEN Tag("CELL_BLANK", "str")
         ELSE Tag("CELL_TEXT", "str")
    ELSE IF strncmp(c.t.value,
                    <<"i", "n", "l", "i", "n", "e", "S", "t", "r">>, 9) = 0
    THEN Tag("CELL_TEXT", "inlineStr")
    ELSE Warned(Tag("CELL_TEXT", "unknown"))

\* ------------------------------------------------------------------- state
VARIABLES
    refAttr,    \* the "r" attribute of the <c> node handed to the constructor
    location_,  \* XlsxCell::location_ and the outcome of the constructor
    string,     \* the <si> or <is> node handed to parseString
    parsed,     \* what parseString returned: the flag and *out
    cell_,      \* XlsxCell::cell_: the t and s attributes, the v and is children
    na,         \* the missing-value sentinel the caller passes
    stringTable,\* the shared-string table the caller passes
    dateStyles, \* the date-style set the caller passes
    returned    \* what each member function returned when last called

varsRef  == <<refAttr, location_>>
varsStr  == <<string, parsed>>
varsArgs == <<cell_, na, stringTable, dateStyles>>
varsCell == <<cell_, na, stringTable, dateStyles, returned>>
vars == <<refAttr, location_, string, parsed,
          cell_, na, stringTable, dateStyles, returned>>

\* ------------------------------------------- the constructor (parseRef)
RefChars == {"A", "Z", "0", "1", "2", "@", "a"}
RefAttrs == {Absent} \cup {Present(r) : r \in SeqUpTo(RefChars, MaxRefLen)}

NotConstructed == [state |-> "new", row |-> 0, col |-> 0]
NotParsed == [called |-> FALSE, found |-> FALSE, out |-> <<>>]
NoString == Elem("si", <<>>, <<>>)

IdleRef == refAttr = Present(<<"B", "2">>)
           /\ location_ = [state |-> "ok", row |-> 1, col |-> 1]
IdleStr == string = NoString /\ parsed = NotParsed

NothingReturned ==
    [type |-> NotCalled, asStdString |-> NotCalled, asDouble |-> NotCalled,
     asDate |-> NotCalled, asCharSxp |-> NotCalled]
IdleCell ==
    /\ cell_ = [t |-> Absent, s |-> Absent, v |-> Absent, is |-> Absent]
    /\ na = <<>>
    /\ stringTable = <<>>
    /\ dateStyles = {}
    /\ returned = NothingReturned

InitRef ==
    /\ refAttr \in RefAttrs
    /\ location_ = NotConstructed
    /\ IdleStr
    /\ IdleCell

\* XlsxCell::XlsxCell
Construct ==
    /\ location_.state = "new"
    /\ location_' =
         IF ~refAttr.present
         THEN [state |-> "stop", row |-> 0, col |-> 0]
         ELSE LET p == parseRef(refAttr.value) IN
              IF p.stop THEN [state |-> "stop", row |-> 0, col |-> 0]
              ELSE [state |-> "ok", row |-> p.row, col |-> p.col]
    /\ UNCHANGED <<refAttr, varsStr, varsCell>>

NextRef == Construct
SpecRef == InitRef /\ [][NextRef]_vars

\* XlsxCell::row, XlsxCell::col
row == location_.row
col == location_.col

\* ------------------------------------------------- calls of parseString
Texts == {<<>>, <<"a">>, <<"b">>}
Kids  == {T(x) : x \in Texts}
         \cup {R(<<>>), R(<<Elem("rPr", <<>>, <<>>)>>),
               R(<<Elem("rPr", <<>>, <<>>), T(<<"a">>)>>),
               R(<<T(<<"a">>), T(<<"b">>)>>)}
         \cup {R(<<T(x)>>) : x \in Texts}
         \cup {Elem("phoneticPr", <<>>, <<>>)}

InitStr ==
    /\ string \in {Elem("si", <<>>, k) : k \in SeqUpTo(Kids, MaxKids)}
    /\ parsed = NotParsed
    /\ IdleRef
    /\ IdleCell

ParseString ==
    /\ ~parsed.called
    /\ parsed' = [called |-> TRUE, found |-> parseString(string).found,
                  out |-> parseString(string).out]
    /\ UNCHANGED <<string, varsRef, varsCell>>

NextStr == ParseString
SpecStr == InitStr /\ [][NextStr]_vars

\* ------------------------------------------- calls on a constructed cell
TypeAttrs ==
    {Absent} \cup
    {Present(x) : x \in {<<>>, <<"n">>, <<"b">>, <<"d">>, <<"e">>, <<"s">>,
                         <<"s", "t", "r">>,
                         <<"i", "n", "l", "i", "n", "e", "S", "t", "r">>,
                         <<"x">>}}
StyleAttrs == {Absent, Present(<<"3">>)}
Values ==
    {Absent} \cup
    {Present(x) : x \in {<<>>, <<"1">>, <<"2">>, <<"-", "1">>, <<"N", "A">>,
                         <<"4", "2">>, <<"#", "N", "U", "M", "!">>}}
InlineStrings ==
    {Absent, Present(Elem("is", <<>>, <<R(<<>>)>>)),
     Present(Elem("is", <<>>, <<T(<<"N", "A">>)>>))}
Sentinels == {<<>>, <<"N", "A">>}
TableEntry(i) ==
    CASE i % 4 = 1 -> <<"a">>
      [] i % 4 = 2 -> <<"N", "A">>
      [] i % 4 = 3 -> <<>>
      [] OTHER     -> <<"b">>
Tables == {[i \in 1..n |-> TableEntry(i)] : n \in 0..MaxTable}
DateStyleSets == {{}, {3, 7}, {-1}}
Offsets == {25569, 24107}

Init ==
    /\ cell_ \in [t : TypeAttrs, s : StyleAttrs, v : Values, is : InlineStrings]
    /\ na \in Sentinels
    /\ stringTable \in Tables
    /\ dateStyles \in DateStyleSets
    /\ returned = NothingReturned
    /\ IdleRef
    /\ IdleStr

CallType ==
    /\ returned' = [returned EXCEPT
                      !.type = type(cell_, na, stringTable, dateStyles)]
    /\ UNCHANGED <<varsArgs, varsRef, varsStr>>

CallAsStdString ==
    /\ returned' = [returned EXCEPT
                      !.asStdString = asStdString(cell_, stringTable)]
    /\ UNCHANGED <<varsArgs, varsRef, varsStr>>

CallAsDouble ==
    /\ returned' = [returned EXCEPT !.asDouble = asDouble(cell_, na)]
    /\ UNCHANGED <<varsArgs, varsRef, varsStr>>

CallAsDate ==
    /\ \E offset \in Offsets :
          returned' = [returned EXCEPT
                         !.asDate = [asDate(cell_, na, offset)
                                        EXCEPT !.offset = offset]]
    /\ UNCHANGED <<varsArgs, varsRef, varsStr>>

CallAsCharSxp ==
    /\ returned' = [returned EXCEPT
                      !.asCharSxp = asCharSxp(cell_, na, stringTable)]
    /\ UNCHANGED <<varsArgs, varsRef, varsStr>>

Next ==
    \/ CallType
    \/ CallAsStdString
    \/ CallAsDouble
    \/ CallAsDate
    \/ CallAsCharSxp

Spec == Init /\ [][Next]_vars

\* ======================================================= properties
IsLetter(c) == IsIn(Letters, c)
IsDigit(c)  == IsIn(Digits, c)

\* ref matches [A-Z]+[0-9]+
WellFormedRef(ref) ==
    \E k \in 1..(Len(ref) - 1) :
        /\ \A i \in 1..k : IsLetter(ref[i])
        /\ \A i \in (k + 1)..Len(ref) : IsDigit(ref[i])

RowDigits(ref) == SelectSeq(ref, IsDigit)
NoLeadingZero(ref) == Len(RowDigits(ref)) = 1 \/ RowDigits(ref)[1] # "0"

\* the reference builder: column letters in bijective base 26 (A = 1,
\* Z = 26, AA = 27) followed by the one-indexed decimal row
RECURSIVE ColumnLetters(_)
ColumnLetters(n) ==
    IF n <= 0 THEN <<>>
    ELSE ColumnLetters((n - 1) \div 26) \o <<Letters[((n - 1) % 26) + 1]>>

RECURSIVE Decimal(_)
Decimal(n) ==
    IF n < 0 THEN <<"-">> \o Decimal(-n)
    ELSE IF n < 10 THEN <<Digits[n + 1]>>
    ELSE Decimal(n \div 10) \o <<Digits[(n % 10) + 1]>>

BuildRef(r, c) == ColumnLetters(c + 1) \o Decimal(r + 1)

RefExamples ==
    location_.state = "ok" =>
        /\ refAttr.value = <<"A", "1">> => (row = 0 /\ col = 0)
        /\ refAttr.value = <<"Z", "1">> => (row = 0 /\ col = 25)
        /\ refAttr.value = <<"A", "A", "1", "2">> => (row = 11 /\ col = 26)

\* C1 (as stated): for every ref matching [A-Z]+[0-9]+, building the
\* reference from parseRef(ref) gives back ref exactly, and A1, Z1, AA12
\* parse to (0,0), (0,25), (11,26).
C1_RoundTripAnyRow ==
    /\ RefExamples
    /\ (location_.state = "ok" /\ WellFormedRef(refAttr.value))
          => BuildRef(row, col) = refAttr.value

\* C1 (amended): for every ref matching [A-Z]+[0-9]+ whose row numeral has no
\* leading zero (a single digit, or a first digit other than 0), building
\* the reference from parseRef(ref) gives back ref exactly, and A1, Z1, AA12
\* parse to (0,0), (0,25), (11,26).
C1_RoundTrip ==
    /\ RefExamples
    /\ (location_.state = "ok" /\ WellFormedRef(refAttr.value)
          /\ NoLeadingZero(refAttr.value))
          => BuildRef(row, col) = refAttr.value

C1_Witness ==
    /\ location_.state = "ok"
    /\ refAttr.value = <<"A", "A", "1", "2">>
    /\ row = 11 /\ col = 26
    /\ BuildRef(row, col) = refAttr.value

\* C2: constructing a cell either stops with a hard error or yields
\* row >= 0 and col >= 0; a reference with a character outside [A-Z0-9], or
\* with no digits, no letters or a one-indexed row of 0 is rejected.
C2_NonNegativeOrStop ==
    location_.state # "new" =>
        /\ location_.state = "stop" \/ (row >= 0 /\ col >= 0)
        /\ (refAttr.present
              /\ (\/ \E i \in 1..Len(refAttr.value) :
                        ~IsLetter(refAttr.value[i]) /\ ~IsDigit(refAttr.value[i])
                  \/ \A i \in 1..Len(refAttr.value) : ~IsDigit(refAttr.value[i])
                  \/ \A i \in 1..Len(refAttr.value) : ~IsLetter(refAttr.value[i])
                  \/ \A i \in 1..Len(refAttr.value) :
                        IsDigit(refAttr.value[i]) => refAttr.value[i] = "0"))
             => location_.state = "stop"

\* what the rich-text rule says, stated over the children directly
HasText(e) == \E j \in 1..Len(e.kids) : e.kids[j].name = "t"
FirstText(e) ==
    e.kids[CHOOSE j \in 1..Len(e.kids) :
              /\ e.kids[j].name = "t"
              /\ \A k \in 1..(j - 1) : e.kids[k].name # "t"].value
RunText(e) == IF e.name = "r" /\ HasText(e) THEN FirstText(e) ELSE <<>>

RECURSIVE RunsText(_, _)
RunsText(node, n) ==
    IF n = 0 THEN <<>> ELSE RunsText(node, n - 1) \o RunText(node.kids[n])

ExpectedFound(node) ==
    \/ HasText(node)
    \/ \E i \in 1..Len(node.kids) :
          node.kids[i].name = "r" /\ HasText(node.kids[i])
ExpectedOut(node) ==
    (IF HasText(node) THEN FirstText(node) ELSE <<>>)
        \o RunsText(node, Len(node.kids))

\* C8: parseString returns found = TRUE exactly when the node has a <t>
\* child or an <r> child containing a <t>; the output is the first <t>
\* content followed by the <t> contents of the <r> children in sibling
\* order; an empty <t></t> is found with the empty string, a lone <r></r>
\* is not found.
C8_ParseString ==
    parsed.called =>
        /\ parsed.found = ExpectedFound(string)
        /\ parsed.found => parsed.out = ExpectedOut(string)
        /\ string.kids = <<T(<<>>)>> => (parsed.found /\ parsed.out = <<>>)
        /\ string.kids = <<R(<<>>)>> => ~parsed.found

C8_Witness ==
    /\ parsed.called
    /\ string.kids = <<T(<<"a">>), R(<<>>), R(<<T(<<"b">>)>>)>>
    /\ parsed.found
    /\ parsed.out = <<"a", "b">>

\* ---------------------------------------------------- cell properties
TypeIs(x)  == cell_.t = Present(x)
HasValue   == cell_.v.present
HasInline  == cell_.is.present
Index      == atoi(cell_.v.value)
InRange    == Index >= 0 /\ Index < Len(stringTable)
Called(r)  == r.kind # "none"
IsSentinel == cell_.v.value = na

\* C3: type() raises no hard error on a constructed cell, and for type "s"
\* with a value child whose index is outside the string table it reports
\* Blank with a warning.
C3_TypeNeverThrows ==
    Called(returned.type) =>
        /\ returned.type.kind = "tag"
        /\ (TypeIs(<<"s">>) /\ HasValue /\ ~InRange)
              => (returned.type.tag = "CELL_BLANK" /\ returned.type.warned)

\* the style index as a reader of the attribute text sees it
StyleIndex ==
    IF ~cell_.s.present THEN -1
    ELSE CHOOSE n \in 0..99 : Decimal(n) = cell_.s.value

ExpectedTag ==
    IF ~cell_.t.present \/ TypeIs(<<"n">>)
    THEN IF StyleIndex \in dateStyles THEN "CELL_DATE" ELSE "CELL_NUMERIC"
    ELSE CASE TypeIs(<<"b">>) -> "CELL_NUMERIC"
           [] TypeIs(<<"d">>) -> "CELL_TEXT"
           [] TypeIs(<<"e">>) -> "CELL_BLANK"
           [] TypeIs(<<"s">>) ->
                IF ~HasValue \/ stringTable[Index + 1] = na
                THEN "CELL_BLANK" ELSE "CELL_TEXT"
           [] TypeIs(<<"s", "t", "r">>) ->
                IF ~HasValue \/ IsSentinel THEN "CELL_BLANK" ELSE "CELL_TEXT"
           [] OTHER -> "CELL_TEXT"

\* C4: type() returns exactly one tag, fixed by the type attribute: absent
\* or "n" gives Date when the style index (absent counts as -1) is in
\* dateStyles and Numeric otherwise; "b" Numeric; "d" Text; "e" Blank; "s"
\* Blank when the value child is absent or the table entry at its in-range
\* index is the sentinel, Text otherwise; "str" Blank when the value child
\* is absent or equals the sentinel, Text otherwise; "inlineStr" and any
\* other type string Text.
C4_Classification ==
    (Called(returned.type) /\ ((TypeIs(<<"s">>) /\ HasValue) => InRange))
        => (returned.type.kind = "tag" /\ returned.type.tag = ExpectedTag)

C4_Witness ==
    /\ returned.type.tag = "CELL_DATE"
    /\ ~cell_.t.present
    /\ cell_.s = Present(<<"3">>)
    /\ dateStyles = {3, 7}

StrictAccessorOnTable ==
    (Called(returned.asStdString) /\ TypeIs(<<"s">>) /\ HasValue) =>
        IF InRange
        THEN /\ returned.asStdString.kind = "text"
             /\ returned.asStdString.text = stringTable[Index + 1]
        ELSE returned.asStdString.kind = "stop"

\* C5 (as stated): for a cell of type "s" with a value child whose index is
\* outside the table, asStdString fails with a hard error and asCharSxp
\* warns and returns the missing value; for an in-range index asStdString
\* returns exactly the table entry.
C5_SeverityAnyCell ==
    /\ StrictAccessorOnTable
    /\ (Called(returned.asCharSxp) /\ TypeIs(<<"s">>) /\ HasValue /\ ~InRange)
          => (returned.asCharSxp.kind = "na" /\ returned.asCharSxp.warned)

\* C5 (amended): for a cell of type "s" with a value child whose index is
\* outside the table, asStdString fails with a hard error and, when the
\* cell has no inline-string child, asCharSxp warns and returns the missing
\* value; for an in-range index asStdString returns exactly the table entry.
C5_Severity ==
    /\ StrictAccessorOnTable
    /\ (Called(returned.asCharSxp) /\ TypeIs(<<"s">>) /\ HasValue /\ ~InRange
          /\ ~HasInline)
          => (returned.asCharSxp.kind = "na" /\ returned.asCharSxp.warned)

C5_Witness ==
    /\ TypeIs(<<"s">>) /\ HasValue /\ ~HasInline
    /\ Index = 42 /\ Len(stringTable) = MaxTable
    /\ returned.asStdString.kind = "stop"
    /\ returned.asCharSxp.kind = "na" /\ returned.asCharSxp.warned

\* C6: for a cell of type "e" with a value child, type() returns Blank and
\* no accessor returns the error text or a number derived from it: each
\* returns a missing indicator.
C6_ErrorNeverSurfaced ==
    (TypeIs(<<"e">>) /\ HasValue) =>
        /\ Called(returned.type) => returned.type.tag = "CELL_BLANK"
        /\ Called(returned.asCharSxp) => returned.asCharSxp.kind = "na"
        /\ Called(returned.asDouble) => returned.asDouble.kind = "na"
        /\ Called(returned.asDate) => returned.asDate.kind = "na"
        /\ Called(returned.asStdString)
              => returned.asStdString.text # cell_.v.value

\* C7: asDouble and asDate return the not-available marker exactly when the
\* value child is absent or its text equals the sentinel; otherwise asDouble
\* returns the parsed number and asDate (parsed - offset) * 86400, never the
\* zero fallback; "42" with offset 25569 gives (42 - 25569) * 86400.
C7_NumericAccessors ==
    LET missing == ~HasValue \/ IsSentinel
        d  == returned.asDouble
        dt == returned.asDate
    IN  /\ Called(d) =>
              /\ d.kind = "na" <=> missing
              /\ ~missing => /\ d.kind = "num" /\ d.path # "zero"
                             /\ d.unit = 1 /\ d.count = atof(cell_.v.value)
        /\ Called(dt) =>
              /\ dt.kind = "na" <=> missing
              /\ ~missing => /\ dt.kind = "num" /\ dt.path # "zero"
                             /\ dt.unit = 86400
                             /\ dt.count = atof(cell_.v.value) - dt.offset
              /\ (~missing /\ cell_.v.value = <<"4", "2">> /\ dt.offset = 25569)
                    => (dt.count = -25527 /\ dt.unit = 86400)

C7_Witness ==
    /\ cell_.v = Present(<<"4", "2">>)
    /\ returned.asDate.kind = "num"
    /\ returned.asDate.offset = 25569
    /\ returned.asDate.count = -25527
    /\ returned.asDouble.kind = "num" /\ returned.asDouble.count = 42

\* C9: for a cell with a value child and no inline-string child, asStdString
\* and asCharSxp take the string-table path for the same cells, exactly those
\* whose type attribute is the exact string "s"; for any other type
\* attribute (absent, "", "str", "n", ...) both return the raw value text
\* and never index the table.
C9_SameTablePath ==
    (HasValue /\ ~HasInline) =>
        /\ Called(returned.asStdString)
              => (returned.asStdString.path = "table" <=> TypeIs(<<"s">>))
        /\ Called(returned.asCharSxp)
              => (returned.asCharSxp.path = "table" <=> TypeIs(<<"s">>))

\* C10: for a cell with no inline-string child whose type is "s" with an
\* in-range index or no value child, or "str", type() returns Blank exactly
\* when asCharSxp returns the missing value, and when type() returns Text,
\* asCharSxp returns the table entry ("s") or the raw value text ("str").
C10_BlankAgreement ==
    (/\ Called(returned.type) /\ Called(returned.asCharSxp)
     /\ ~HasInline
     /\ \/ TypeIs(<<"s">>) /\ (~HasValue \/ InRange)
        \/ TypeIs(<<"s", "t", "r">>))
    => /\ returned.type.tag = "CELL_BLANK" <=> returned.asCharSxp.kind = "na"
       /\ returned.type.tag = "CELL_TEXT" =>
             /\ returned.asCharSxp.kind = "text"
             /\ returned.asCharSxp.text =
                   IF TypeIs(<<"s">>) THEN stringTable[Index + 1]
                   ELSE cell_.v.value

C10_Witness ==
    /\ TypeIs(<<"s">>) /\ HasValue /\ ~HasInline /\ InRange
    /\ stringTable[Index + 1] = na
    /\ returned.type.tag = "CELL_BLANK"
    /\ returned.asCharSxp.kind = "na" /\ ~returned.asCharSxp.warned

====
